---- MODULE Spec2Model ----
(***************************************************************************)
(* The endless-runner simulation of the repository, in its two             *)
(* implementations: src/client/main.ts ("main") and                        *)
(* src/client/three/game/enhanced-runner-game.ts ("enhanced").             *)
(*                                                                         *)
(* Fixed-point representation of the JavaScript numbers:                   *)
(*   time      tenths of a second   (deltaTime 0.1 s  = 1)                 *)
(*   position  hundredths of a unit (lane x = -2      = -200)              *)
(*   speed     tenths of a unit/s   (speed 10         = 100)               *)
(*   velocityY units per second     (jump impulse 15  = 15)                *)
(*   interval  hundredths of a second (2.5 s          = 250)               *)
(* With these units z += velocity * deltaTime and y += velocityY *         *)
(* deltaTime are exact; the lateral step dx * 8 * deltaTime is rounded to  *)
(* the nearest hundredth.                                                  *)
(***************************************************************************)
EXTENDS Integers, Sequences, FiniteSets, TLC

\* ------------------------------------------------------------------ bounds
\* The deltaTime sequences the frame callbacks of the first session
\* may receive in the game specification:
\*   steady: a frame every 0.1 s
\*   stalls: three 2.5 s frames (the tab was in the background), then
\*           frames of 0.1 s, ending with or without one more 2.5 s frame
FrameSchedules ==
  { [i \in 1..30 |-> 1],
    <<25, 25, 25>> \o [i \in 1..24 |-> 1] \o <<25>>,
    <<25, 25, 25>> \o [i \in 1..49 |-> 1] }
\* and of a session started again after a game over
RestartSchedules == { <<25, 25, 25>> }
\* deltaTime values used for direct calls of the player's update()
PlayerDeltaTimes == {1, 2, 3, 25}
\* keyboard and touch commands explored
MaxCommands == 1
\* number of startGame() calls explored
MaxSessions == 2
\* frame callbacks explored while the game is not playing, per session
MaxIdleFrames == 2
\* frames that would move the player further out than this are not explored
MaxAbsX == 4000
\* calls explored in the player-only specification
MaxCalls == 8
\* start(), stop(), dispose() calls and frame callbacks explored in the
\* render-loop specification
MaxLoopOps == 5
\* frames of the render loop explored inside one another
MaxNesting == 2
\* time that passes before a call or a frame callback, in the unit of the
\* render loop's clock (1/3 ms): nothing, 16.7 ms, 33.3 ms, 40 ms, 1 s
Gaps == {0, 50, 100, 120, 3000}
\* Math.random() results (hundredths) the spawner-only specification draws
RandomValues == {10, 30, 65, 90}
\* spawnObjects() calls explored in the spawner-only specification
MaxSpawnCalls == 1
\* calls and browser events explored in the resize-handler specification
MaxResizeOps == 6
\* add() and cleanup() calls explored in the cleanup specification
MaxCleanupOps == 5
\* lengths of the collections the collision-only specification starts from
MaxObstacles == 3
MaxCollectibles == 2
\* where its entities are: (lane, z), the player standing in lane 1 at z = 0
ObstaclePlaces == { <<1, 0>>, <<1, 100>>, <<0, 0>> }
CollectiblePlaces == { <<1, 0>>, <<1, 80>>, <<2, 0>> }

VARIABLES
  impl,          \* "main" or "enhanced": which implementation runs
  gameState,     \* isPlaying, isPaused, score, speed, lives, gameOver
  player,        \* currentLane, targetX, x, y, velocityY, isGrounded
  obstacles,     \* active obstacles, in spawn order
  collectibles,  \* active collectibles, in spawn order
  spawnTimer,    \* tenths of a second
  spawnInterval, \* hundredths of a second
  waves,         \* history: spawnObjects() calls so far (names the entities)
  disposedNow,   \* entity id -> dispose() calls in the last frame or startGame
  scene,         \* ids of the entity meshes currently in the scene
  health,        \* HealthBar.currentHealth (main only)
  scoreAtOver,   \* score when this session's gameOver()/stopGame() ran
  threw,         \* the last frame callback ended in a TypeError
  schedules,     \* the deltaTime sequences this session's frames may still follow
  frame,         \* playing frames this session has had
  clock,         \* history: sum of deltaTime over this session's playing frames
  survival,      \* history: survival points added in this session
  sessions,      \* history: number of startGame() calls so far
  idleFrames,    \* history: frame callbacks received while not playing
  impulses,      \* history: times velocityY was set to the impulse since last grounded
  commands,      \* history: keyboard and touch commands so far
  calls,         \* history: direct player calls (player-only specification)
  lastOp,        \* history: the operation the last step executed
  loop,          \* the RenderLoop object, the browser's frame requests and clock
  resizeHandler, \* the ResizeHandler object, its observers, listener and timers
  hmrCleanup,    \* the HMRCleanup registry and the calls of its last cleanup()
  construction   \* the arguments and the outcome of new EnhancedRunnerGame(...)

vars == <<impl, gameState, player, obstacles, collectibles, spawnTimer,
          spawnInterval, waves, disposedNow, scene, health, scoreAtOver,
          threw, schedules, frame, clock, survival, sessions, idleFrames,
          impulses, commands, calls, lastOp, loop, resizeHandler,
          hmrCleanup, construction>>

\* the objects outside the game simulation and the render loop
starter == <<resizeHandler, hmrCleanup, construction>>

\* everything but the player, its history and the step's disposals
gameVars == <<gameState, obstacles, collectibles, spawnTimer, spawnInterval,
              waves, scene, health, scoreAtOver, threw, schedules, frame,
              clock, survival, sessions, idleFrames>>

\* ------------------------------------------------------------ arithmetic
Abs(n) == IF n < 0 THEN -n ELSE n

\* n / d rounded to the nearest integer (d > 0)
RoundDiv(n, d) == (2 * n + d) \div (2 * d)

\* ---------------------------------------------------------------- player
lanes == <<-200, 0, 200>>

jumpForce == 15

gravity == -50

moveSpeed == 8

\* y of a grounded player: groundY + 0.6
GroundHeight == 60

\* Player constructor, main.ts
Player_new ==
  [currentLane |-> 1, targetX |-> 0, x |-> 0, y |-> 60, velocityY |-> 0,
   isGrounded |-> TRUE]

\* EnhancedPlayer field initialisers and constructor (mesh placed at y = 1)
EnhancedPlayer_new ==
  [currentLane |-> 1, targetX |-> 0, x |-> 0, y |-> 100, velocityY |-> 0,
   isGrounded |-> TRUE]

Player_jump_unguarded(p) ==
  [p EXCEPT !.velocityY = jumpForce, !.isGrounded = FALSE]

Player_jump(p) ==
  IF p.isGrounded
    THEN [p EXCEPT !.velocityY = jumpForce, !.isGrounded = FALSE]
    ELSE p

EnhancedPlayer_jump(p) ==
  IF p.isGrounded
    THEN [p EXCEPT !.velocityY = jumpForce, !.isGrounded = FALSE]
    ELSE p

\* lanes[i] as JavaScript reads it: undefined outside the array
LaneX(i) == IF i \in 0..2 THEN lanes[i + 1] ELSE "undefined"

Player_moveLeft_unguarded(p) ==
  [p EXCEPT !.currentLane = p.currentLane - 1,
            !.targetX = LaneX(p.currentLane - 1)]

Player_moveLeft(p) ==
  IF p.currentLane > 0
    THEN [p EXCEPT !.currentLane = p.currentLane - 1,
                   !.targetX = LaneX(p.currentLane - 1)]
    ELSE p

Player_moveRight(p) ==
  IF p.currentLane < Len(lanes) - 1
    THEN [p EXCEPT !.currentLane = p.currentLane + 1,
                   !.targetX = LaneX(p.currentLane + 1)]
    ELSE p

EnhancedPlayer_moveLeft(p) ==
  IF p.currentLane > 0
    THEN [p EXCEPT !.currentLane = p.currentLane - 1,
                   !.targetX = LaneX(p.currentLane - 1)]
    ELSE p

EnhancedPlayer_moveRight(p) ==
  IF p.currentLane < Len(lanes) - 1
    THEN [p EXCEPT !.currentLane = p.currentLane + 1,
                   !.targetX = LaneX(p.currentLane + 1)]
    ELSE p

\* jumping and gravity, identical in both players
Fall(p, dt) ==
  IF ~p.isGrounded
    THEN LET v == p.velocityY + ((gravity * dt) \div 10)
             y == p.y + v * dt * 10
         IN IF y <= GroundHeight
              THEN [p EXCEPT !.y = GroundHeight, !.velocityY = 0,
                             !.isGrounded = TRUE]
              ELSE [p EXCEPT !.y = y, !.velocityY = v]
    ELSE p

\* Player.update, main.ts: the x position is never snapped onto targetX
Player_update(p, dt) ==
  LET dx == p.targetX - p.x
      q  == IF Abs(dx) > 10
              THEN [p EXCEPT !.x = p.x + RoundDiv(dx * moveSpeed * dt, 10)]
              ELSE p
  IN Fall(q, dt)

\* EnhancedPlayer.update: within 0.1 of the target the x position snaps
EnhancedPlayer_update(p, dt) ==
  LET dx == p.targetX - p.x
      q  == IF Abs(dx) > 10
              THEN [p EXCEPT !.x = p.x + RoundDiv(dx * moveSpeed * dt, 10)]
              ELSE [p EXCEPT !.x = p.targetX]
  IN Fall(q, dt)

jump(p) == IF impl = "main" THEN Player_jump(p) ELSE EnhancedPlayer_jump(p)

moveLeft(p) ==
  IF impl = "main" THEN Player_moveLeft(p) ELSE EnhancedPlayer_moveLeft(p)

moveRight(p) ==
  IF impl = "main" THEN Player_moveRight(p) ELSE EnhancedPlayer_moveRight(p)

update(p, dt) ==
  IF impl = "main" THEN Player_update(p, dt) ELSE EnhancedPlayer_update(p, dt)

\* history of impulses: a call of jump() that changes the player counts
\* one, and the count starts again when an update grounds the player
ImpulsesAfterJump(p) == IF jump(p) # p THEN impulses + 1 ELSE impulses

ImpulsesAfterUpdate(q) == IF q.isGrounded THEN 0 ELSE impulses

\* -------------------------------------------------------------- entities
\* Math.floor(r * n) for a Math.random() result r given in hundredths
RandIndex(r, n) == (r * n) \div 100

\* offsets of the enhanced collectible's floating animation explored
\* (1 + sin(Date.now() * 0.005 + z) * 0.2 lies in 0.8 .. 1.2)
Bobs == {-20, 20}

SpawnZ == -5000

DespawnZ == 1000

ObstacleY == 75

CollectibleY == 100

\* squared hit radius of an obstacle (distance < 1.0)
ObstacleRadiusSq == 10000

\* squared pickup radius of a collectible (distance < 0.8)
CollectibleRadiusSq == 6400

\* new Obstacle(lane, -50) / new DiwaliObstacle(lane, -50) with velocity = speed
Obstacle_new(id, lane, speed) ==
  [id |-> id, lane |-> lane, z |-> SpawnZ, velocity |-> speed]

\* new Collectible(lane, -50) / new DiwaliCollectible(lane, -50, loader, type)
Collectible_new(id, lane, speed, type) ==
  [id |-> id, lane |-> lane, z |-> SpawnZ, velocity |-> speed, type |-> type]

\* Obstacle.update / Collectible.update: z += velocity * deltaTime
Entity_update(e, dt) == [e EXCEPT !.z = e.z + e.velocity * dt]

\* every collectible worth the fallback value
getValue_flat(type) == 10

\* DiwaliCollectible.getValue
getValue(type) ==
  CASE type = "coin"       -> 10
    [] type = "diya"       -> 25
    [] type = "phooljhadi" -> 15
    [] type = "rangoli"    -> 30
    [] OTHER               -> 10

types == <<"coin", "diya", "phooljhadi", "rangoli">>

\* playerPos.distanceTo(position) < radius, on squares; the player's z is 0
Within(p, ex, ey, ez, radiusSq) ==
  (p.x - ex) * (p.x - ex) + (p.y - ey) * (p.y - ey) + ez * ez < radiusSq

\* the test looking at the distance along z only
HitsObstacle_zOnly(p, o) == o.z * o.z < ObstacleRadiusSq

HitsObstacle(p, o) == Within(p, LaneX(o.lane), ObstacleY, o.z, ObstacleRadiusSq)

HitsCollectible(p, c, ey) ==
  Within(p, LaneX(c.lane), ey, c.z, CollectibleRadiusSq)

\* array.splice(i, 1) with a 1-based position
Splice(arr, i) == SubSeq(arr, 1, i - 1) \o SubSeq(arr, i + 1, Len(arr))

Ids(arr) == {arr[i].id : i \in 1..Len(arr)}

\* no dispose() call
NoDisposal == <<>>

\* disp after one more dispose() call on every entity whose id is in ids
Disposed(disp, ids) ==
  [i \in (DOMAIN disp) \cup ids |->
     (IF i \in DOMAIN disp THEN disp[i] ELSE 0) + (IF i \in ids THEN 1 ELSE 0)]

\* the entity constructed for a lane by the spawnObjects() call number w
EntityId(w, lane) == 3 * w + lane + 1

\* ------------------------------------------------------------ spawning
\* The results of the successive Math.random() calls of one spawnObjects()
\* call, in hundredths.  The game specification explores these runs:
\*   1: one obstacle in the center lane, no collectible
\*   2: main: no obstacle, coins in lanes 1 and 2;
\*      enhanced: obstacles in lanes 1 and 0, a phooljhadi in lane 2
\*   3: main: an obstacle in lane 0, coins in lanes 1 and 2;
\*      enhanced: obstacles in lanes 0 and 1, a coin in lane 2
RandomRuns ==
  { <<10, 65, 90, 90, 90, 90>>,
    <<90, 65, 10, 10, 65, 90>>,
    <<65, 10, 10, 10, 10, 90>> }

\* main.ts: availableLanes.forEach(lane => if (Math.random() < 0.6) ...),
\* from position j of avail, reading the run from position k
RECURSIVE Main_spawnCollectibles(_, _, _, _, _, _)
Main_spawnCollectibles(avail, j, run, k, w, speed) ==
  IF j > Len(avail) THEN <<>>
  ELSE IF run[k] < 60
    THEN <<Collectible_new(EntityId(w, avail[j]), avail[j], speed, "coin")>>
         \o Main_spawnCollectibles(avail, j + 1, run, k + 1, w, speed)
    ELSE Main_spawnCollectibles(avail, j + 1, run, k + 1, w, speed)

\* spawnObjects offering the obstacle's lane to the collectibles as well
Main_spawnObjects_allLanes(run, w, speed) ==
  LET hasObstacle == run[1] < 70
      idx == RandIndex(run[2], 3) + 1
  IN [obstacles    |-> IF hasObstacle
                         THEN <<Obstacle_new(EntityId(w, <<0, 1, 2>>[idx]),
                                             <<0, 1, 2>>[idx], speed)>>
                         ELSE <<>>,
      collectibles |-> Main_spawnCollectibles(<<0, 1, 2>>, 1, run,
                          IF hasObstacle THEN 3 ELSE 2, w, speed)]

\* spawnObjects, main.ts: the entities one call constructs
Main_spawnObjects(run, w, speed) ==
  LET hasObstacle == run[1] < 70
      idx   == RandIndex(run[2], 3) + 1
      avail == IF hasObstacle THEN Splice(<<0, 1, 2>>, idx) ELSE <<0, 1, 2>>
      obs   == IF hasObstacle
                 THEN <<Obstacle_new(EntityId(w, <<0, 1, 2>>[idx]),
                                     <<0, 1, 2>>[idx], speed)>>
                 ELSE <<>>
  IN [obstacles    |-> obs,
      collectibles |-> Main_spawnCollectibles(avail, 1, run,
                          IF hasObstacle THEN 3 ELSE 2, w, speed)]

\* enhanced: availableLanes.forEach(lane => if (Math.random() < 0.7) ...)
RECURSIVE Enhanced_spawnCollectibles(_, _, _, _, _, _)
Enhanced_spawnCollectibles(avail, j, run, k, w, speed) ==
  IF j > Len(avail) THEN <<>>
  ELSE IF run[k] < 70
    THEN <<Collectible_new(EntityId(w, avail[j]), avail[j], speed,
                           types[RandIndex(run[k + 1], 4) + 1])>>
         \o Enhanced_spawnCollectibles(avail, j + 1, run, k + 2, w, speed)
    ELSE Enhanced_spawnCollectibles(avail, j + 1, run, k + 1, w, speed)

\* spawnObjects placing an obstacle in every lane
Enhanced_spawnObjects_everyLane(run, w, speed) ==
  [obstacles    |-> [l \in 1..3 |-> Obstacle_new(EntityId(w, l - 1), l - 1,
                                                 speed)],
   collectibles |-> <<>>]

\* EnhancedRunnerGame.spawnObjects: the entities one call constructs
Enhanced_spawnObjects(run, w, speed) ==
  LET obstacleCount == IF run[1] < 60 THEN 1 ELSE 2
      idx1   == RandIndex(run[2], 3) + 1
      avail1 == Splice(<<0, 1, 2>>, idx1)
      idx2   == RandIndex(run[3], 2) + 1
      avail2 == IF obstacleCount = 2 THEN Splice(avail1, idx2) ELSE avail1
      obs    == IF obstacleCount = 2
                  THEN <<Obstacle_new(EntityId(w, <<0, 1, 2>>[idx1]),
                                      <<0, 1, 2>>[idx1], speed),
                         Obstacle_new(EntityId(w, avail1[idx2]),
                                      avail1[idx2], speed)>>
                  ELSE <<Obstacle_new(EntityId(w, <<0, 1, 2>>[idx1]),
                                      <<0, 1, 2>>[idx1], speed)>>
  IN [obstacles    |-> obs,
      collectibles |-> Enhanced_spawnCollectibles(avail2, 1, run,
                          obstacleCount + 2, w, speed)]

\* ------------------------------------------------------- update and cull
\* the traversal updating every entity and culling none
Main_updateAndCull_noCull(arr, k, dt, gone) ==
  [arr |-> [i \in DOMAIN arr |-> Entity_update(arr[i], dt)], gone |-> gone]

\* main.ts: arr.forEach((e, index) => { e.update(dt); if (e.z > 10)
\* { e.dispose(); arr.splice(index, 1) } }): position k (from 0) is visited
\* while it exists; a removal shifts the rest one place down
RECURSIVE Main_updateAndCull(_, _, _, _)
Main_updateAndCull(arr, k, dt, gone) ==
  IF k >= Len(arr) THEN [arr |-> arr, gone |-> gone]
  ELSE LET e == Entity_update(arr[k + 1], dt)
       IN IF e.z > DespawnZ
            THEN Main_updateAndCull(Splice(arr, k + 1), k + 1, dt,
                                    gone \cup {e.id})
            ELSE Main_updateAndCull([arr EXCEPT ![k + 1] = e], k + 1, dt, gone)

\* the cull disposing the entities past the threshold and keeping them
Enhanced_updateAndCull_keep(arr, i, dt, gone) ==
  [arr  |-> [k \in DOMAIN arr |-> Entity_update(arr[k], dt)],
   gone |-> gone \cup { arr[k].id : k \in { n \in DOMAIN arr :
                           Entity_update(arr[n], dt).z > DespawnZ } }]

\* enhanced: for (i = length - 1; i >= 0; i--) { update; if (z > 10)
\* { scene.remove; dispose; splice(i, 1) } }, with i from 1
RECURSIVE Enhanced_updateAndCull(_, _, _, _)
Enhanced_updateAndCull(arr, i, dt, gone) ==
  IF i < 1 THEN [arr |-> arr, gone |-> gone]
  ELSE LET e == Entity_update(arr[i], dt)
       IN IF e.z > DespawnZ
            THEN Enhanced_updateAndCull(Splice(arr, i), i - 1, dt,
                                        gone \cup {e.id})
            ELSE Enhanced_updateAndCull([arr EXCEPT ![i] = e], i - 1, dt, gone)

\* ------------------------------------------------------------ collisions
\* the test written one life too early
LivesExhausted_early(l) == l <= 1

\* the test that ends the session: if (gameState.lives <= 0)
LivesExhausted(l) == l <= 0

maxHealth == 3

\* HealthBar.setHealth: the health clamped into 0 .. maxHealth
setHealth(h) ==
  IF h < 0 THEN 0 ELSE IF h > maxHealth THEN maxHealth ELSE h

\* takeDamage leaving the health bar as it is
takeDamage_ignored(current, amount) == current

\* HealthBar.takeDamage
takeDamage(current, amount) == setHealth(current - amount)

\* checkCollisions, main.ts, obstacle loop from position i down to 1; it
\* returns from checkCollisions as soon as gameOver() has run
RECURSIVE Main_obstaclePass(_, _, _, _, _, _)
Main_obstaclePass(arr, i, p, lives, hp, gone) ==
  IF i < 1
    THEN [arr |-> arr, lives |-> lives, health |-> hp, gone |-> gone,
          over |-> FALSE]
  ELSE IF HitsObstacle(p, arr[i])
    THEN LET lives1 == lives - 1
             hp1    == takeDamage(hp, 1)
             arr1   == Splice(arr, i)
             gone1  == gone \cup {arr[i].id}
         IN IF LivesExhausted(lives1)
              THEN [arr |-> arr1, lives |-> lives1, health |-> hp1,
                    gone |-> gone1, over |-> TRUE]
              ELSE Main_obstaclePass(arr1, i - 1, p, lives1, hp1, gone1)
    ELSE Main_obstaclePass(arr, i - 1, p, lives, hp, gone)

\* checkCollisions, main.ts, collectible loop: every coin is worth 10
RECURSIVE Main_collectiblePass(_, _, _, _, _)
Main_collectiblePass(arr, i, p, score, gone) ==
  IF i < 1 THEN [arr |-> arr, score |-> score, gone |-> gone]
  ELSE IF HitsCollectible(p, arr[i], CollectibleY)
    THEN Main_collectiblePass(Splice(arr, i), i - 1, p, score + 10,
                              gone \cup {arr[i].id})
    ELSE Main_collectiblePass(arr, i - 1, p, score, gone)

\* EnhancedRunnerGame.checkCollisions, obstacle loop from position i down
\* to 1.  stopGame() replaces this.obstacles by an empty array and the loop
\* goes on: its next read, this.obstacles[i], is undefined and
\* obstacle.mesh throws a TypeError
RECURSIVE Enhanced_obstaclePass(_, _, _, _, _, _)
Enhanced_obstaclePass(arr, i, p, lives, gone, stopped) ==
  IF i < 1
    THEN [arr |-> arr, lives |-> lives, gone |-> gone, stopped |-> stopped,
          threw |-> FALSE]
  ELSE IF stopped
    THEN [arr |-> arr, lives |-> lives, gone |-> gone, stopped |-> stopped,
          threw |-> TRUE]
  ELSE IF HitsObstacle(p, arr[i])
    THEN LET lives1 == lives - 1
             arr1   == Splice(arr, i)
             gone1  == gone \cup {arr[i].id}
         IN IF LivesExhausted(lives1)
              THEN Enhanced_obstaclePass(<<>>, i - 1, p, lives1,
                                         gone1 \cup Ids(arr1), TRUE)
              ELSE Enhanced_obstaclePass(arr1, i - 1, p, lives1, gone1, FALSE)
    ELSE Enhanced_obstaclePass(arr, i - 1, p, lives, gone, FALSE)

\* EnhancedRunnerGame.checkCollisions, collectible loop; ey is the height
\* the floating animation gave the collectibles in this frame
RECURSIVE Enhanced_collectiblePass(_, _, _, _, _, _)
Enhanced_collectiblePass(arr, i, p, score, gone, ey) ==
  IF i < 1 THEN [arr |-> arr, score |-> score, gone |-> gone]
  ELSE IF HitsCollectible(p, arr[i], ey)
    THEN Enhanced_collectiblePass(Splice(arr, i), i - 1, p,
                                  score + getValue(arr[i].type),
                                  gone \cup {arr[i].id}, ey)
    ELSE Enhanced_collectiblePass(arr, i - 1, p, score, gone, ey)

\* Math.floor(deltaTime * 5)
SurvivalPoints(dt) == (dt * 5) \div 10

\* the survival points assigned instead of added
AddSurvival_assigned(score, dt) == SurvivalPoints(dt)

\* gameState.score += Math.floor(deltaTime * 5)
AddSurvival(score, dt) == score + SurvivalPoints(dt)

\* gameOver, main.ts: the flags it sets
gameOver(gs) == [gs EXCEPT !.gameOver = TRUE, !.isPlaying = FALSE]

\* stopGame forgetting to clear isPlaying
stopGame_stillPlaying(gs) == [gs EXCEPT !.gameOver = TRUE]

\* EnhancedRunnerGame.stopGame: the flags it sets
stopGame(gs) == [gs EXCEPT !.isPlaying = FALSE, !.gameOver = TRUE]

\* ------------------------------------------------------------ the frame
SpeedIncrement == 1

\* the comparison written with > instead of >=
SpawnDue_strict(dt) == (spawnTimer + dt) * 10 > spawnInterval

\* the spawn timer has reached the interval after deltaTime was added
SpawnDue(dt) == (spawnTimer + dt) * 10 >= spawnInterval

NoSpawn == [obstacles |-> <<>>, collectibles |-> <<>>]

\* the frame with the spawn step moved before the update and cull step
Main_frame_spawnFirst(dt, run) ==
  LET p1     == Player_update(player, dt)
      due    == SpawnDue(dt)
      sp     == IF due THEN Main_spawnObjects(run, waves, gameState.speed)
                       ELSE NoSpawn
      oc     == Main_updateAndCull(obstacles \o sp.obstacles, 0, dt, {})
      cc     == Main_updateAndCull(collectibles \o sp.collectibles, 0, dt, {})
      obs2   == oc.arr
      cols2  == cc.arr
      new    == Ids(sp.obstacles) \cup Ids(sp.collectibles)
      op     == Main_obstaclePass(obs2, Len(obs2), p1, gameState.lives,
                                  health, {})
      cp     == IF op.over
                  THEN [arr |-> cols2, score |-> gameState.score, gone |-> {}]
                  ELSE Main_collectiblePass(cols2, Len(cols2), p1,
                                            gameState.score, {})
      gone   == oc.gone \cup cc.gone \cup op.gone \cup cp.gone
      gs1    == [gameState EXCEPT
                   !.lives = op.lives,
                   !.speed = IF due THEN @ + SpeedIncrement ELSE @,
                   !.score = AddSurvival(cp.score, dt)]
  IN [gameState |-> IF op.over THEN gameOver(gs1) ELSE gs1,
      player        |-> p1,
      obstacles     |-> op.arr,
      collectibles  |-> cp.arr,
      spawnTimer    |-> IF due THEN 0 ELSE spawnTimer + dt,
      spawnInterval |-> spawnInterval,
      waves         |-> IF due THEN waves + 1 ELSE waves,
      disposedNow   |-> Disposed(NoDisposal, gone),
      scene         |-> (scene \cup new) \ gone,
      health        |-> op.health,
      scoreAtOver   |-> IF op.over THEN cp.score ELSE scoreAtOver,
      threw         |-> FALSE,
      survival      |-> survival + SurvivalPoints(dt)]

\* the body of animate, main.ts, while gameState.isPlaying && !gameOver
Main_frame(dt, run) ==
  LET p1     == Player_update(player, dt)
      oc     == Main_updateAndCull(obstacles, 0, dt, {})
      cc     == Main_updateAndCull(collectibles, 0, dt, {})
      due    == SpawnDue(dt)
      sp     == IF due THEN Main_spawnObjects(run, waves, gameState.speed)
                       ELSE NoSpawn
      obs2   == oc.arr \o sp.obstacles
      cols2  == cc.arr \o sp.collectibles
      new    == Ids(sp.obstacles) \cup Ids(sp.collectibles)
      op     == Main_obstaclePass(obs2, Len(obs2), p1, gameState.lives,
                                  health, {})
      cp     == IF op.over
                  THEN [arr |-> cols2, score |-> gameState.score, gone |-> {}]
                  ELSE Main_collectiblePass(cols2, Len(cols2), p1,
                                            gameState.score, {})
      gone   == oc.gone \cup cc.gone \cup op.gone \cup cp.gone
      gs1    == [gameState EXCEPT
                   !.lives = op.lives,
                   !.speed = IF due THEN @ + SpeedIncrement ELSE @,
                   !.score = AddSurvival(cp.score, dt)]
  IN [gameState |-> IF op.over THEN gameOver(gs1) ELSE gs1,
      player        |-> p1,
      obstacles     |-> op.arr,
      collectibles  |-> cp.arr,
      spawnTimer    |-> IF due THEN 0 ELSE spawnTimer + dt,
      spawnInterval |-> spawnInterval,
      waves         |-> IF due THEN waves + 1 ELSE waves,
      disposedNow   |-> Disposed(NoDisposal, gone),
      scene         |-> (scene \cup new) \ gone,
      health        |-> op.health,
      scoreAtOver   |-> IF op.over THEN cp.score ELSE scoreAtOver,
      threw         |-> FALSE,
      survival      |-> survival + SurvivalPoints(dt)]

MinSpawnInterval == 120

SpawnIntervalStep == 2

\* the body of EnhancedRunnerGame.update while playing and not paused
Enhanced_frame(dt, run, bob) ==
  LET p1     == EnhancedPlayer_update(player, dt)
      oc     == Enhanced_updateAndCull(obstacles, Len(obstacles), dt, {})
      cc     == Enhanced_updateAndCull(collectibles, Len(collectibles), dt, {})
      due    == SpawnDue(dt)
      sp     == IF due THEN Enhanced_spawnObjects(run, waves, gameState.speed)
                       ELSE NoSpawn
      obs2   == oc.arr \o sp.obstacles
      cols2  == cc.arr \o sp.collectibles
      new    == Ids(sp.obstacles) \cup Ids(sp.collectibles)
      op     == Enhanced_obstaclePass(obs2, Len(obs2), p1, gameState.lives,
                                      {}, FALSE)
      cols3  == IF op.stopped THEN <<>> ELSE cols2
      cp     == IF op.threw
                  THEN [arr |-> cols3, score |-> gameState.score, gone |-> {}]
                  ELSE Enhanced_collectiblePass(cols3, Len(cols3), p1,
                          gameState.score, {}, CollectibleY + bob)
      pts    == IF op.threw THEN 0 ELSE SurvivalPoints(dt)
      gone   == oc.gone \cup cc.gone \cup op.gone \cup cp.gone
                \cup (IF op.stopped THEN Ids(cols2) ELSE {})
      gs1    == [gameState EXCEPT
                   !.lives = op.lives,
                   !.speed = IF due THEN @ + SpeedIncrement ELSE @,
                   !.score = IF op.threw THEN cp.score
                                         ELSE AddSurvival(cp.score, dt)]
  IN [gameState |-> IF op.stopped THEN stopGame(gs1) ELSE gs1,
      player        |-> p1,
      obstacles     |-> op.arr,
      collectibles  |-> cp.arr,
      spawnTimer    |-> IF due THEN 0 ELSE spawnTimer + dt,
      spawnInterval |-> IF due
                          THEN (IF spawnInterval - SpawnIntervalStep
                                     > MinSpawnInterval
                                  THEN spawnInterval - SpawnIntervalStep
                                  ELSE MinSpawnInterval)
                          ELSE spawnInterval,
      waves         |-> IF due THEN waves + 1 ELSE waves,
      disposedNow   |-> Disposed(NoDisposal, gone),
      scene         |-> (scene \cup new) \ gone,
      health        |-> health,
      scoreAtOver   |-> IF op.stopped THEN gameState.score ELSE scoreAtOver,
      threw         |-> op.threw,
      survival      |-> survival + pts]

\* ------------------------------------------------------ the render loop
\* config.maxDeltaTime = 1 / 30 s, in the clock's unit of 1/3 ms
maxDeltaTime == 100

\* new RenderLoop(...); requests holds the handles of the animation-frame
\* requests not yet run or cancelled, now is performance.now(), frames the
\* currentTime of every animate() call that is inside onUpdate (innermost
\* last); animationId 0 stands for null.  updates, renders and starts
\* count the onUpdate, renderer.render and effective start() calls,
\* deltaTime is the last value passed to onUpdate
RenderLoop_new ==
  [isRunning |-> FALSE, animationId |-> 0, lastTime |-> 0, requests |-> {},
   nextId |-> 1, now |-> 0, frames |-> <<>>, updates |-> 0, renders |-> 0,
   deltaTime |-> 0, starts |-> 0, ops |-> 0]

\* deltaTime passed through without the clamp
RenderLoop_deltaTime_unclamped(currentTime, lastTime) == currentTime - lastTime

\* Math.min((currentTime - lastTime) / 1000, config.maxDeltaTime)
RenderLoop_deltaTime(currentTime, lastTime) ==
  IF currentTime - lastTime < maxDeltaTime THEN currentTime - lastTime
                                           ELSE maxDeltaTime

\* animate, from its first line to the call of onUpdate
RenderLoop_animate(l) ==
  IF ~l.isRunning THEN l
  ELSE [l EXCEPT !.animationId = l.nextId,
                 !.requests = @ \cup {l.nextId},
                 !.nextId = @ + 1,
                 !.frames = Append(@, l.now),
                 !.updates = @ + 1,
                 !.deltaTime = RenderLoop_deltaTime(l.now, l.lastTime)]

\* animate, from the return of onUpdate to its end
RenderLoop_animateEnd(l) ==
  [l EXCEPT !.renders = @ + 1,
            !.lastTime = l.frames[Len(l.frames)],
            !.frames = SubSeq(@, 1, Len(@) - 1)]

\* start without the test of isRunning
RenderLoop_start_unguarded(l) ==
  RenderLoop_animate([l EXCEPT !.isRunning = TRUE, !.lastTime = l.now,
                               !.starts = @ + 1])

\* start
RenderLoop_start(l) ==
  IF l.isRunning THEN l
  ELSE RenderLoop_animate([l EXCEPT !.isRunning = TRUE, !.lastTime = l.now,
                                    !.starts = @ + 1])

\* stop leaving the requested frame in place
RenderLoop_stop_noCancel(l) ==
  IF ~l.isRunning THEN l ELSE [l EXCEPT !.isRunning = FALSE]

\* stop
RenderLoop_stop(l) ==
  IF ~l.isRunning THEN l
  ELSE [l EXCEPT !.isRunning = FALSE,
                 !.requests = IF l.animationId # 0 THEN @ \ {l.animationId}
                                                   ELSE @,
                 !.animationId = 0]

\* dispose
RenderLoop_dispose(l) == RenderLoop_stop(l)

\* --------------------------------------------------- the resize handler
\* new ResizeHandler(renderer, camera, onResize): the constructor assigns
\* orientationChangeHandler.  resizeObserver 0 stands for null; observers
\* holds the ResizeObservers that are connected, listening tells whether
\* window has the orientationchange listener, timers counts the pending
\* setTimeout callbacks, resizes the updateCameraAspect / setSize /
\* onResize rounds made so far
ResizeHandler_new ==
  [resizeObserver |-> 0, orientationChangeHandler |-> TRUE,
   isObserving |-> FALSE, observers |-> {}, nextObserver |-> 1,
   listening |-> FALSE, timers |-> 0, resizes |-> 0, ops |-> 0]

\* disconnect
ResizeHandler_disconnect(h) ==
  [h EXCEPT !.observers = IF h.resizeObserver # 0
                            THEN @ \ {h.resizeObserver} ELSE @,
            !.resizeObserver = 0,
            !.listening = IF h.orientationChangeHandler THEN FALSE ELSE @,
            !.isObserving = FALSE]

\* dispose
ResizeHandler_dispose(h) ==
  [ResizeHandler_disconnect(h) EXCEPT !.orientationChangeHandler = FALSE]

\* observe(element)
ResizeHandler_observe(h) ==
  LET d == IF h.isObserving THEN ResizeHandler_disconnect(h) ELSE h
  IN [d EXCEPT !.resizeObserver = d.nextObserver,
               !.observers = @ \cup {d.nextObserver},
               !.nextObserver = @ + 1,
               !.isObserving = TRUE,
               !.listening = IF d.orientationChangeHandler THEN TRUE ELSE @]

\* handleResize(entry), once per entry of a ResizeObserver callback
ResizeHandler_handleResize(h) == [h EXCEPT !.resizes = @ + 1]

\* the orientationchange listener: setTimeout(..., 100)
ResizeHandler_orientationChange(h) == [h EXCEPT !.timers = @ + 1]

\* the delayed callback of the orientationchange listener
ResizeHandler_timeout(h) ==
  [h EXCEPT !.timers = @ - 1, !.resizes = @ + 1]

\* ------------------------------------------------------ the HMR cleanup
\* new HMRCleanup(): cleanupFunctions holds the registered functions, each
\* with an id and whether it throws when called; called and errors are the
\* functions the last cleanup() called, in order, and the exceptions it
\* caught
HMRCleanup_new ==
  [cleanupFunctions |-> <<>>, called |-> <<>>, errors |-> 0, nextFn |-> 1,
   ops |-> 0]

\* add(cleanupFn)
HMRCleanup_add(c, throws) ==
  [c EXCEPT !.cleanupFunctions = Append(@, [id |-> c.nextFn,
                                            throws |-> throws]),
            !.nextFn = @ + 1]

\* cleanup with the call of fn() outside any try block: the first
\* exception leaves forEach and cleanup()
HMRCleanup_forEach_noCatch(fns, k, called, errors) ==
  LET first == { i \in DOMAIN fns : fns[i].throws }
      last  == IF first = {} THEN Len(fns)
               ELSE CHOOSE i \in first : \A j \in first : i <= j
  IN [called |-> [i \in 1..last |-> fns[i].id], errors |-> 0,
      completed |-> first = {}]

\* cleanupFunctions.forEach(fn => { try { fn() } catch (error) {
\* console.error(...) } }), from position k
RECURSIVE HMRCleanup_forEach(_, _, _, _)
HMRCleanup_forEach(fns, k, called, errors) ==
  IF k > Len(fns)
    THEN [called |-> called, errors |-> errors, completed |-> TRUE]
    ELSE HMRCleanup_forEach(fns, k + 1, Append(called, fns[k].id),
                            IF fns[k].throws THEN errors + 1 ELSE errors)

\* cleanup
HMRCleanup_cleanup(c) ==
  LET r == HMRCleanup_forEach(c.cleanupFunctions, 1, <<>>, 0)
  IN [c EXCEPT !.called = r.called, !.errors = r.errors,
               !.cleanupFunctions = IF r.completed THEN <<>> ELSE @]

\* ------------------------------------- constructing EnhancedRunnerGame
\* the assets the constructor asks the loader for
AssetIds == {"runner-idle", "diwali-ground", "diwali-share-diya"}

\* what the scene passed to the constructor may already hold
SceneObjects == {"ambientLight", "directionalLight", "background"}

\* the object when the constructor body is entered: the fields without an
\* initialiser (player, ground) are undefined
EnhancedRunnerGame_fields(sceneArg, assets) ==
  [scene |-> sceneArg, assets |-> assets, player |-> "undefined",
   ground |-> "undefined", controls |-> FALSE, threw |-> FALSE,
   constructed |-> FALSE]

\* setupScene: this.scene.add(this.player.mesh) comes first and throws a
\* TypeError when this.player is undefined
EnhancedRunnerGame_setupScene(g) ==
  IF g.player = "undefined"
    THEN [g EXCEPT !.threw = TRUE]
    ELSE [g EXCEPT !.scene = @ \cup {"player.mesh", "ground", "lines"}
                                 \cup (IF "diwali-share-diya" \in g.assets
                                         THEN {"diyas"} ELSE {}),
                   !.ground = "ground"]

\* setupControls: the keydown and touch listeners are registered
EnhancedRunnerGame_setupControls(g) == [g EXCEPT !.controls = TRUE]

\* this.player = new EnhancedPlayer(this.assetLoader)
EnhancedRunnerGame_createPlayer(g) ==
  [g EXCEPT !.player = IF "runner-idle" \in g.assets THEN "runner"
                                                     ELSE "capsule"]

\* the constructor: setupScene(), setupControls(), then the player; an
\* exception ends it where it is thrown
EnhancedRunnerGame_constructor(g) ==
  LET g1 == EnhancedRunnerGame_setupScene(g)
      g2 == EnhancedRunnerGame_setupControls(g1)
      g3 == EnhancedRunnerGame_createPlayer(g2)
  IN IF g1.threw THEN g1 ELSE [g3 EXCEPT !.constructed = TRUE]

\* ------------------------------------------------------------- actions
Init ==
  /\ impl \in {"main", "enhanced"}
  /\ gameState = [isPlaying |-> FALSE, isPaused |-> FALSE, score |-> 0,
                  speed |-> 100, lives |-> 3, gameOver |-> FALSE]
  /\ player = IF impl = "main" THEN Player_new ELSE EnhancedPlayer_new
  /\ obstacles = <<>>
  /\ collectibles = <<>>
  /\ spawnTimer = 0
  /\ spawnInterval = IF impl = "main" THEN 250 ELSE 200
  /\ waves = 0
  /\ disposedNow = NoDisposal
  /\ scene = {}
  /\ health = 3
  /\ scoreAtOver = 0
  /\ threw = FALSE
  /\ schedules = {}
  /\ frame = 0
  /\ clock = 0
  /\ survival = 0
  /\ sessions = 0
  /\ commands = 0
  /\ idleFrames = 0
  /\ impulses = 0
  /\ calls = 0
  /\ lastOp = "init"
  /\ loop = RenderLoop_new
  /\ resizeHandler = ResizeHandler_new
  /\ hmrCleanup = HMRCleanup_new
  /\ construction = EnhancedRunnerGame_fields({}, {})

\* the deltaTimes the next playing frame may receive
NextDeltas == { s[frame + 1] : s \in { t \in schedules : Len(t) > frame } }

\* the sequences that go on after a frame of deltaTime dt
Following(dt) ==
  { s \in schedules : Len(s) > frame /\ s[frame + 1] = dt }

\* the values a playing frame computed become the next state
ApplyFrame(r, dt) ==
  /\ gameState' = r.gameState
  /\ player' = r.player
  /\ obstacles' = r.obstacles
  /\ collectibles' = r.collectibles
  /\ spawnTimer' = r.spawnTimer
  /\ spawnInterval' = r.spawnInterval
  /\ waves' = r.waves
  /\ disposedNow' = r.disposedNow
  /\ scene' = r.scene
  /\ health' = r.health
  /\ scoreAtOver' = r.scoreAtOver
  /\ threw' = r.threw
  /\ survival' = r.survival
  /\ clock' = clock + dt
  /\ frame' = frame + 1
  /\ impulses' = ImpulsesAfterUpdate(r.player)
  /\ lastOp' = "frame"
  /\ schedules' = Following(dt)
  /\ UNCHANGED <<starter, loop, impl, sessions, idleFrames, commands, calls>>

\* a frame callback that finds the game not running changes nothing
IdleFrame ==
  /\ idleFrames < MaxIdleFrames
  /\ idleFrames' = idleFrames + 1
  /\ disposedNow' = NoDisposal
  /\ lastOp' = "frame"
  /\ UNCHANGED <<starter, loop, impl, gameState, player, obstacles, collectibles,
                 spawnTimer, spawnInterval, waves, scene, health,
                 scoreAtOver, threw, schedules, frame, clock, survival,
                 sessions, impulses, commands, calls>>

\* the condition under which animate runs the simulation, main.ts
Main_frameRuns(gs) == gs.isPlaying /\ ~gs.gameOver

\* the condition under which update runs the simulation, enhanced
Enhanced_frameRuns(gs) == ~(~gs.isPlaying \/ gs.isPaused)

RunsFor(dt) == IF SpawnDue(dt) THEN RandomRuns ELSE {<<>>}

\* animate(currentTime), main.ts
animate ==
  /\ impl = "main"
  /\ IF Main_frameRuns(gameState)
       THEN \E dt \in NextDeltas :
                  /\ Abs(Player_update(player, dt).x) <= MaxAbsX
                  /\ \E run \in RunsFor(dt) :
                       ApplyFrame(Main_frame(dt, run), dt)
       ELSE IdleFrame

\* EnhancedRunnerGame.update(deltaTime)
Enhanced_update ==
  /\ impl = "enhanced"
  /\ IF Enhanced_frameRuns(gameState)
       THEN \E dt \in NextDeltas :
                  /\ Abs(EnhancedPlayer_update(player, dt).x) <= MaxAbsX
                  /\ \E run \in RunsFor(dt) : \E bob \in Bobs :
                       ApplyFrame(Enhanced_frame(dt, run, bob), dt)
       ELSE IdleFrame

\* startGame disposing the obstacles only
Main_clearObjects_obstaclesOnly == Ids(obstacles)

\* startGame, main.ts: the entities its two forEach loops dispose
Main_clearObjects == Ids(obstacles) \cup Ids(collectibles)

SchedulesFor(n) == IF n = 0 THEN FrameSchedules ELSE RestartSchedules

\* startGame, main.ts; its buttons are on the start screen and on the
\* game-over screen, which are hidden while the game is playing
startGame ==
  /\ impl = "main"
  /\ ~gameState.isPlaying
  /\ sessions < MaxSessions
  /\ gameState' = [gameState EXCEPT !.isPlaying = TRUE, !.gameOver = FALSE,
                                    !.score = 0, !.lives = 3, !.speed = 100]
  /\ spawnTimer' = 0
  /\ disposedNow' = Disposed(NoDisposal, Main_clearObjects)
  /\ scene' = scene \ Main_clearObjects
  /\ obstacles' = <<>>
  /\ collectibles' = <<>>
  /\ health' = setHealth(3)
  /\ sessions' = sessions + 1
  /\ schedules' = SchedulesFor(sessions)
  /\ frame' = 0
  /\ clock' = 0
  /\ survival' = 0
  /\ idleFrames' = 0
  /\ threw' = FALSE
  /\ scoreAtOver' = 0
  /\ lastOp' = "startGame"
  /\ UNCHANGED <<starter, loop, impl, player, spawnInterval, waves, impulses, commands,
                 calls>>

\* EnhancedRunnerGame.clearGameObjects: the ids it disposes
clearGameObjects == Ids(obstacles) \cup Ids(collectibles)

\* EnhancedRunnerGame.startGame; GameUI hides its start button while the
\* game is playing and shows the restart button on the game-over screen
Enhanced_startGame ==
  /\ impl = "enhanced"
  /\ ~gameState.isPlaying
  /\ sessions < MaxSessions
  /\ gameState' = [gameState EXCEPT !.isPlaying = TRUE, !.isPaused = FALSE,
                                    !.gameOver = FALSE, !.score = 0,
                                    !.speed = 100, !.lives = 3]
  /\ spawnTimer' = 0
  /\ disposedNow' = Disposed(NoDisposal, clearGameObjects)
  /\ scene' = scene \ clearGameObjects
  /\ obstacles' = <<>>
  /\ collectibles' = <<>>
  /\ sessions' = sessions + 1
  /\ schedules' = SchedulesFor(sessions)
  /\ frame' = 0
  /\ clock' = 0
  /\ survival' = 0
  /\ idleFrames' = 0
  /\ threw' = FALSE
  /\ scoreAtOver' = 0
  /\ lastOp' = "startGame"
  /\ UNCHANGED <<starter, loop, impl, player, spawnInterval, waves, health, impulses,
                 commands, calls>>

\* the guard testing gameOver only
Main_controlsActive_gameOverOnly(gs) == ~gs.gameOver

\* the keydown and touch handlers return at once unless this holds
Main_controlsActive(gs) == ~(~gs.isPlaying \/ gs.gameOver)

Enhanced_controlsActive(gs) == ~(~gs.isPlaying \/ gs.isPaused)

controlsActive ==
  IF impl = "main" THEN Main_controlsActive(gameState)
                   ELSE Enhanced_controlsActive(gameState)

\* Space / ArrowUp, a tap or an upward swipe
KeyJump ==
  /\ commands < MaxCommands
  /\ commands' = commands + 1
  /\ IF controlsActive
       THEN /\ player' = jump(player)
            /\ impulses' = ImpulsesAfterJump(player)
       ELSE UNCHANGED <<player, impulses>>
  /\ lastOp' = "jump"
  /\ UNCHANGED <<starter, loop, impl, gameVars, disposedNow, calls>>

\* ArrowLeft / KeyA, a swipe or touch to the left
KeyLeft ==
  /\ commands < MaxCommands
  /\ commands' = commands + 1
  /\ player' = IF controlsActive THEN moveLeft(player) ELSE player
  /\ lastOp' = "moveLeft"
  /\ UNCHANGED <<starter, loop, impl, gameVars, disposedNow, impulses, calls>>

\* ArrowRight / KeyD, a swipe or touch to the right
KeyRight ==
  /\ commands < MaxCommands
  /\ commands' = commands + 1
  /\ player' = IF controlsActive THEN moveRight(player) ELSE player
  /\ lastOp' = "moveRight"
  /\ UNCHANGED <<starter, loop, impl, gameVars, disposedNow, impulses, calls>>

\* EnhancedRunnerGame.pauseGame, the handler of GameUI's pause button,
\* which is shown while the game is playing
pauseGame ==
  /\ impl = "enhanced"
  /\ gameState.isPlaying
  /\ commands < MaxCommands
  /\ commands' = commands + 1
  /\ gameState' = [gameState EXCEPT !.isPaused = ~@]
  /\ lastOp' = "pauseGame"
  /\ UNCHANGED <<starter, loop, impl, player, obstacles, collectibles, spawnTimer,
                 spawnInterval, waves, disposedNow, scene, health,
                 scoreAtOver, threw, schedules, frame, clock, survival,
                 sessions, idleFrames, impulses, calls>>

\* the session state the frames of a finished game must leave alone
sessionState == <<gameState, player, obstacles, collectibles, spawnTimer,
                  spawnInterval>>

Next ==
  \/ animate
  \/ Enhanced_update
  \/ startGame
  \/ Enhanced_startGame
  \/ KeyJump
  \/ KeyLeft
  \/ KeyRight
  \/ pauseGame

Spec == Init /\ [][Next]_vars

\* --------------------------------------------- the player on its own
\* direct calls of the player's methods, in any order
CallJump ==
  /\ calls < MaxCalls
  /\ lastOp' = "jump"
  /\ player' = jump(player)
  /\ impulses' = ImpulsesAfterJump(player)
  /\ calls' = calls + 1
  /\ UNCHANGED <<starter, loop, impl, gameVars, disposedNow, commands>>

CallMoveLeft ==
  /\ calls < MaxCalls
  /\ lastOp' = "moveLeft"
  /\ player' = moveLeft(player)
  /\ calls' = calls + 1
  /\ UNCHANGED <<starter, loop, impl, gameVars, disposedNow, commands, impulses>>

CallMoveRight ==
  /\ calls < MaxCalls
  /\ lastOp' = "moveRight"
  /\ player' = moveRight(player)
  /\ calls' = calls + 1
  /\ UNCHANGED <<starter, loop, impl, gameVars, disposedNow, commands, impulses>>

CallUpdate ==
  /\ calls < MaxCalls
  /\ lastOp' = "update"
  /\ \E dt \in PlayerDeltaTimes :
       /\ Abs(update(player, dt).x) <= MaxAbsX
       /\ player' = update(player, dt)
       /\ impulses' = ImpulsesAfterUpdate(update(player, dt))
  /\ calls' = calls + 1
  /\ UNCHANGED <<starter, loop, impl, gameVars, disposedNow, commands>>

NextPlayer == CallJump \/ CallMoveLeft \/ CallMoveRight \/ CallUpdate

SpecPlayer == Init /\ [][NextPlayer]_vars

\* --------------------------------------------- the spawner on its own
\* every sequence of six Math.random() results over RandomValues
SpawnRuns == [1..6 -> RandomValues]

\* the spawnObjects() call that constructed the entity
WaveOf(e) == (e.id - 1) \div 3

\* one direct call of spawnObjects(), with any results of Math.random()
CallSpawnObjects ==
  /\ waves < MaxSpawnCalls
  /\ \E run \in SpawnRuns :
       LET sp == IF impl = "main"
                   THEN Main_spawnObjects(run, waves, gameState.speed)
                   ELSE Enhanced_spawnObjects(run, waves, gameState.speed)
       IN /\ obstacles' = obstacles \o sp.obstacles
          /\ collectibles' = collectibles \o sp.collectibles
          /\ scene' = scene \cup Ids(sp.obstacles) \cup Ids(sp.collectibles)
  /\ waves' = waves + 1
  /\ lastOp' = "spawnObjects"
  /\ UNCHANGED <<starter, loop, impl, gameState, player, spawnTimer, spawnInterval,
                 disposedNow, health, scoreAtOver, threw, schedules, frame,
                 clock, survival, sessions, idleFrames, impulses, commands,
                 calls>>

NextSpawn == CallSpawnObjects

SpecSpawn == Init /\ [][NextSpawn]_vars

\* ------------------------------------------- the collisions on their own
\* sequences over S of length at most n
SeqsUpTo(S, n) == UNION { [1..k -> S] : k \in 0..n }

\* obstacle arrays: element i has the id i
ObstacleArrays ==
  { [i \in DOMAIN a |->
       [id |-> i, lane |-> a[i][1], z |-> a[i][2], velocity |-> 100]] :
    a \in SeqsUpTo(ObstaclePlaces, MaxObstacles) }

\* the collectibles an implementation can hold: main.ts has coins only
CollectibleKinds ==
  { <<pl, "coin">> : pl \in CollectiblePlaces }
  \cup (IF impl = "enhanced"
          THEN { <<<<1, 0>>, t>> : t \in {"diya", "phooljhadi", "rangoli"} }
          ELSE {})

\* collectible arrays: element j has the id 10 + j
CollectibleArrays ==
  { [j \in DOMAIN a |->
       [id |-> 10 + j, lane |-> a[j][1][1], z |-> a[j][1][2],
        velocity |-> 100, type |-> a[j][2]]] :
    a \in SeqsUpTo(CollectibleKinds, MaxCollectibles) }

\* a playing game with any number of lives and any such collections
InitCollide ==
  /\ impl \in {"main", "enhanced"}
  /\ \E l \in 1..3 :
       /\ gameState = [isPlaying |-> TRUE, isPaused |-> FALSE, score |-> 0,
                       speed |-> 100, lives |-> l, gameOver |-> FALSE]
       /\ health = l
  /\ player = IF impl = "main" THEN Player_new ELSE EnhancedPlayer_new
  /\ obstacles \in ObstacleArrays
  /\ collectibles \in CollectibleArrays
  /\ scene = Ids(obstacles) \cup Ids(collectibles)
  /\ spawnTimer = 0
  /\ spawnInterval = IF impl = "main" THEN 250 ELSE 200
  /\ waves = 0
  /\ disposedNow = NoDisposal
  /\ scoreAtOver = 0
  /\ threw = FALSE
  /\ schedules = {}
  /\ frame = 0
  /\ clock = 0
  /\ survival = 0
  /\ sessions = 1
  /\ commands = 0
  /\ idleFrames = 0
  /\ impulses = 0
  /\ calls = 0
  /\ lastOp = "init"
  /\ loop = RenderLoop_new
  /\ resizeHandler = ResizeHandler_new
  /\ hmrCleanup = HMRCleanup_new
  /\ construction = EnhancedRunnerGame_fields({}, {})

\* checkCollisions, main.ts
Main_checkCollisions ==
  LET op == Main_obstaclePass(obstacles, Len(obstacles), player,
                              gameState.lives, health, {})
      cp == IF op.over
              THEN [arr |-> collectibles, score |-> gameState.score,
                    gone |-> {}]
              ELSE Main_collectiblePass(collectibles, Len(collectibles),
                                        player, gameState.score, {})
      gs1 == [gameState EXCEPT !.lives = op.lives, !.score = cp.score]
  IN [gameState    |-> IF op.over THEN gameOver(gs1) ELSE gs1,
      obstacles    |-> op.arr,
      collectibles |-> cp.arr,
      gone         |-> op.gone \cup cp.gone,
      health       |-> op.health,
      scoreAtOver  |-> IF op.over THEN cp.score ELSE scoreAtOver,
      threw        |-> FALSE]

\* EnhancedRunnerGame.checkCollisions; the collectibles float at height ey
Enhanced_checkCollisions(ey) ==
  LET op == Enhanced_obstaclePass(obstacles, Len(obstacles), player,
                                  gameState.lives, {}, FALSE)
      cols3 == IF op.stopped THEN <<>> ELSE collectibles
      cp == IF op.threw
              THEN [arr |-> cols3, score |-> gameState.score, gone |-> {}]
              ELSE Enhanced_collectiblePass(cols3, Len(cols3), player,
                                            gameState.score, {}, ey)
      gs1 == [gameState EXCEPT !.lives = op.lives, !.score = cp.score]
  IN [gameState    |-> IF op.stopped THEN stopGame(gs1) ELSE gs1,
      obstacles    |-> op.arr,
      collectibles |-> cp.arr,
      gone         |-> op.gone \cup cp.gone
                       \cup (IF op.stopped THEN Ids(collectibles) ELSE {}),
      health       |-> health,
      scoreAtOver  |-> IF op.stopped THEN gameState.score ELSE scoreAtOver,
      threw        |-> op.threw]

\* one direct call of checkCollisions(), as a playing frame makes it
CallCheckCollisions ==
  /\ IF impl = "main" THEN Main_frameRuns(gameState)
                      ELSE Enhanced_frameRuns(gameState)
  /\ \E bob \in Bobs :
       LET r == IF impl = "main" THEN Main_checkCollisions
                                 ELSE Enhanced_checkCollisions(CollectibleY + bob)
       IN /\ gameState' = r.gameState
          /\ obstacles' = r.obstacles
          /\ collectibles' = r.collectibles
          /\ disposedNow' = Disposed(NoDisposal, r.gone)
          /\ scene' = scene \ r.gone
          /\ health' = r.health
          /\ scoreAtOver' = r.scoreAtOver
          /\ threw' = r.threw
  /\ lastOp' = "checkCollisions"
  /\ UNCHANGED <<starter, loop, impl, player, spawnTimer, spawnInterval, waves, schedules,
                 frame, clock, survival, sessions, idleFrames, impulses,
                 commands, calls>>

NextCollide == CallCheckCollisions

SpecCollide == InitCollide /\ [][NextCollide]_vars

\* ------------------------------------------- the render loop on its own
\* the loop after time d has passed and one more operation is counted
Later(d) == [loop EXCEPT !.now = @ + d, !.ops = @ + 1]

gameAll == <<impl, gameVars, player, disposedNow, impulses, commands, calls,
             starter>>

\* start(), from outside or from inside onUpdate
LoopStart ==
  /\ loop.ops < MaxLoopOps
  /\ Len(loop.frames) < MaxNesting
  /\ \E d \in Gaps : loop' = RenderLoop_start(Later(d))
  /\ lastOp' = "start"
  /\ UNCHANGED gameAll

\* stop(), from outside or from inside onUpdate
LoopStop ==
  /\ loop.ops < MaxLoopOps
  /\ \E d \in Gaps : loop' = RenderLoop_stop(Later(d))
  /\ lastOp' = "stop"
  /\ UNCHANGED gameAll

\* dispose(), from outside or from inside onUpdate
LoopDispose ==
  /\ loop.ops < MaxLoopOps
  /\ \E d \in Gaps : loop' = RenderLoop_dispose(Later(d))
  /\ lastOp' = "dispose"
  /\ UNCHANGED gameAll

\* the browser runs a requested animation frame: animate() is called, once
\* no script is running
LoopFrame ==
  /\ loop.ops < MaxLoopOps
  /\ loop.frames = <<>>
  /\ \E id \in loop.requests : \E d \in Gaps :
       loop' = RenderLoop_animate([Later(d) EXCEPT !.requests = @ \ {id}])
  /\ lastOp' = "animate"
  /\ UNCHANGED gameAll

\* onUpdate returns and the innermost animate() runs to its end
LoopFrameEnd ==
  /\ loop.frames # <<>>
  /\ loop' = RenderLoop_animateEnd(loop)
  /\ lastOp' = "animateEnd"
  /\ UNCHANGED gameAll

NextLoop == LoopStart \/ LoopStop \/ LoopDispose \/ LoopFrame \/ LoopFrameEnd

SpecLoop == Init /\ [][NextLoop]_vars

\* ----------------------------------------- the resize handler on its own
\* the game simulation and the render loop
simulation == <<loop, impl, gameVars, player, disposedNow, impulses,
                commands, calls>>

\* the handler with one more operation counted
Counted(h) == [h EXCEPT !.ops = @ + 1]

\* observe(container)
ResizeObserve ==
  /\ resizeHandler.ops < MaxResizeOps
  /\ resizeHandler' = ResizeHandler_observe(Counted(resizeHandler))
  /\ lastOp' = "observe"
  /\ UNCHANGED <<simulation, hmrCleanup, construction>>

\* disconnect()
ResizeDisconnect ==
  /\ resizeHandler.ops < MaxResizeOps
  /\ resizeHandler' = ResizeHandler_disconnect(Counted(resizeHandler))
  /\ lastOp' = "disconnect"
  /\ UNCHANGED <<simulation, hmrCleanup, construction>>

\* dispose()
ResizeDispose ==
  /\ resizeHandler.ops < MaxResizeOps
  /\ resizeHandler' = ResizeHandler_dispose(Counted(resizeHandler))
  /\ lastOp' = "dispose"
  /\ UNCHANGED <<simulation, hmrCleanup, construction>>

\* the browser calls the callback of a connected ResizeObserver with one
\* entry
ResizeObserved ==
  /\ resizeHandler.ops < MaxResizeOps
  /\ resizeHandler.observers # {}
  /\ resizeHandler' = ResizeHandler_handleResize(Counted(resizeHandler))
  /\ lastOp' = "resize"
  /\ UNCHANGED <<simulation, hmrCleanup, construction>>

\* the browser dispatches orientationchange to the registered listener
OrientationChange ==
  /\ resizeHandler.ops < MaxResizeOps
  /\ resizeHandler.listening
  /\ resizeHandler' = ResizeHandler_orientationChange(Counted(resizeHandler))
  /\ lastOp' = "orientationchange"
  /\ UNCHANGED <<simulation, hmrCleanup, construction>>

\* 100 ms have passed: a pending timer runs its callback
ResizeTimeout ==
  /\ resizeHandler.timers > 0
  /\ resizeHandler' = ResizeHandler_timeout(resizeHandler)
  /\ lastOp' = "timeout"
  /\ UNCHANGED <<simulation, hmrCleanup, construction>>

NextResize ==
  \/ ResizeObserve
  \/ ResizeDisconnect
  \/ ResizeDispose
  \/ ResizeObserved
  \/ OrientationChange
  \/ ResizeTimeout

SpecResize == Init /\ [][NextResize]_vars

\* -------------------------------------------- the HMR cleanup on its own
\* hmrCleanup.add(fn), with a function that returns or one that throws
HmrAdd ==
  /\ hmrCleanup.ops < MaxCleanupOps
  /\ \E throws \in BOOLEAN :
       hmrCleanup' = HMRCleanup_add(Counted(hmrCleanup), throws)
  /\ lastOp' = "add"
  /\ UNCHANGED <<simulation, resizeHandler, construction>>

\* hmrCleanup.cleanup(), from import.meta.hot.dispose
HmrCleanup ==
  /\ hmrCleanup.ops < MaxCleanupOps
  /\ hmrCleanup' = HMRCleanup_cleanup(Counted(hmrCleanup))
  /\ lastOp' = "cleanup"
  /\ UNCHANGED <<simulation, resizeHandler, construction>>

NextHmr == HmrAdd \/ HmrCleanup

SpecHmr == Init /\ [][NextHmr]_vars

\* ------------------------------------------- the constructor on its own
\* before new EnhancedRunnerGame(scene, assetLoader): any scene, any
\* assets loaded
InitConstruct ==
  /\ impl = "enhanced"
  /\ gameState = [isPlaying |-> FALSE, isPaused |-> FALSE, score |-> 0,
                  speed |-> 100, lives |-> 3, gameOver |-> FALSE]
  /\ player = EnhancedPlayer_new
  /\ obstacles = <<>>
  /\ collectibles = <<>>
  /\ spawnTimer = 0
  /\ spawnInterval = 200
  /\ waves = 0
  /\ disposedNow = NoDisposal
  /\ scene = {}
  /\ health = 3
  /\ scoreAtOver = 0
  /\ threw = FALSE
  /\ schedules = {}
  /\ frame = 0
  /\ clock = 0
  /\ survival = 0
  /\ sessions = 0
  /\ commands = 0
  /\ idleFrames = 0
  /\ impulses = 0
  /\ calls = 0
  /\ lastOp = "init"
  /\ loop = RenderLoop_new
  /\ resizeHandler = ResizeHandler_new
  /\ hmrCleanup = HMRCleanup_new
  /\ \E sceneArg \in SUBSET SceneObjects : \E assets \in SUBSET AssetIds :
       construction = EnhancedRunnerGame_fields(sceneArg, assets)

\* new EnhancedRunnerGame(scene, assetLoader)
Construct ==
  /\ ~construction.constructed
  /\ ~construction.threw
  /\ construction' = EnhancedRunnerGame_constructor(construction)
  /\ lastOp' = "constructor"
  /\ UNCHANGED <<simulation, resizeHandler, hmrCleanup>>

NextConstruct == Construct

SpecConstruct == InitConstruct /\ [][NextConstruct]_vars

\* --------------------------------------------------------------- claims
\* C1: under every sequence of moveLeft, moveRight, jump and update calls
\* the lane index stays in 0..2 and targetX is the x of the current lane;
\* moveLeft at lane 0 and moveRight at lane 2 change nothing.
C1_LaneInRange ==
  /\ player.currentLane \in 0..2
  /\ player.targetX = lanes[player.currentLane + 1]
  /\ player.currentLane = 0 => moveLeft(player) = player
  /\ player.currentLane = 2 => moveRight(player) = player

\* the player stands in an edge lane after a move call that was refused
C1_Witness ==
  /\ player.currentLane = 0
  /\ lastOp = "moveLeft"
  /\ calls >= 3

\* C2: jump() on an airborne player changes neither velocityY nor
\* isGrounded, and between take-off and landing velocityY is set to the
\* impulse once, however jump and update calls interleave.
C2_SingleJump ==
  /\ ~player.isGrounded =>
        /\ jump(player).velocityY = player.velocityY
        /\ jump(player).isGrounded = player.isGrounded
  /\ impulses <= 1
  /\ ~player.isGrounded => impulses = 1

\* jump() has just been called on a player that is falling
C2_Witness ==
  /\ lastOp = "jump"
  /\ ~player.isGrounded
  /\ player.velocityY < 0
  /\ impulses = 1

C4_GameOverFreezes ==
  [][ /\ (lastOp' = "frame" /\ gameState.lives > 0 /\ gameState'.lives <= 0)
           => (~gameState'.isPlaying /\ gameState'.gameOver)
      /\ (lastOp' = "frame" /\ gameState.gameOver) => UNCHANGED sessionState
    ]_vars

\* a frame callback has run after the game ended
C4_Witness ==
  /\ gameState.gameOver
  /\ gameState.lives = 0
  /\ idleFrames >= 1
  /\ lastOp = "frame"

\* C5: once the game-over transition has been applied inside a frame,
\* nothing else changes in that frame; in particular the score keeps the
\* value it had at the transition.
C5_ScoreKeptAfterGameOver ==
  gameState.gameOver => gameState.score = scoreAtOver

\* C6: no exception propagates out of the per-frame update.
C6_NoException == ~threw

\* C7: startGame called in the game-over state resets score, lives, speed
\* and spawn timer, sets isPlaying and clears gameOver, empties both
\* collections and disposes every entity that was active.
C7_RestartResets ==
  [][ (lastOp' = "startGame" /\ gameState.gameOver) =>
        /\ gameState'.score = 0
        /\ gameState'.lives = 3
        /\ gameState'.speed = 100
        /\ spawnTimer' = 0
        /\ gameState'.isPlaying
        /\ ~gameState'.gameOver
        /\ obstacles' = <<>>
        /\ collectibles' = <<>>
        /\ \A id \in Ids(obstacles) \cup Ids(collectibles) :
             /\ id \in DOMAIN disposedNow'
             /\ disposedNow'[id] >= 1
             /\ id \notin scene'
    ]_vars

\* a restart has disposed entities that were left over from the game
C7_Witness ==
  /\ lastOp = "startGame"
  /\ sessions = 2
  /\ disposedNow # NoDisposal

\* C8: every session startGame starts has the player in the center lane,
\* with 3 lives and speed 10.
C8_StartsCentered ==
  lastOp = "startGame" =>
    /\ player.currentLane = 1
    /\ player.targetX = 0
    /\ gameState.lives = 3
    /\ gameState.speed = 100

\* C9: the score never decreases, except by startGame.
C9_ScoreMonotone ==
  [][ gameState'.score < gameState.score => lastOp' = "startGame" ]_vars

\* a playing session has earned survival points and picked something up
C9_Witness ==
  /\ gameState.isPlaying
  /\ survival > 0
  /\ gameState.score > survival

\* C10: the survival score gained over frames that sum to T seconds
\* differs from 5 * T by less than one point (clock is in tenths of s).
C10_FivePerSecond == Abs(10 * survival - 5 * clock) < 10

\* C11: the lanes given an obstacle and the lanes given a collectible by
\* the same spawnObjects() call are disjoint, whatever Math.random() returns.
C11_LaneExclusive ==
  \A i \in DOMAIN obstacles : \A j \in DOMAIN collectibles :
     WaveOf(obstacles[i]) = WaveOf(collectibles[j])
       => obstacles[i].lane # collectibles[j].lane

\* a call has placed two obstacles and a collectible
C11_Witness ==
  /\ lastOp = "spawnObjects"
  /\ Len(obstacles) = 2
  /\ Len(collectibles) = 1

\* C12: a playing frame adds deltaTime to the spawn timer; if the timer has
\* then reached the spawn interval, spawnObjects() runs once, the timer
\* becomes 0 and speed grows by 0.1; otherwise nothing is created and speed
\* is unchanged.  Speed never decreases while playing.
C12_SpawnCycle ==
  [][ /\ (lastOp' = "frame" /\ frame' = frame + 1) =>
           LET dt == clock' - clock
           IN IF (spawnTimer + dt) * 10 >= spawnInterval
                THEN /\ waves' = waves + 1
                     /\ spawnTimer' = 0
                     /\ gameState'.speed = gameState.speed + 1
                ELSE /\ waves' = waves
                     /\ spawnTimer' = spawnTimer + dt
                     /\ gameState'.speed = gameState.speed
                     /\ Ids(obstacles') \subseteq Ids(obstacles)
                     /\ Ids(collectibles') \subseteq Ids(collectibles)
      /\ gameState.isPlaying => gameState'.speed >= gameState.speed
    ]_vars

\* the second spawn cycle of a session has just run
C12_Witness ==
  /\ lastOp = "frame"
  /\ waves = 2
  /\ spawnTimer = 0
  /\ gameState.speed = 102
  /\ gameState.isPlaying

\* C13: a jump, moveLeft or moveRight command that arrives while the game
\* is not playing or is game over leaves the player unchanged.
C13_CommandsIgnored ==
  [][ (/\ lastOp' \in {"jump", "moveLeft", "moveRight"}
       /\ (~gameState.isPlaying \/ gameState.gameOver))
        => player' = player ]_vars

\* a command has arrived after the game ended
C13_Witness ==
  /\ gameState.gameOver
  /\ lastOp \in {"jump", "moveLeft", "moveRight"}
  /\ commands = 1

\* C14: a playing frame updates the player, then updates and culls the
\* entities, then spawns, then resolves collisions.  So an entity spawned
\* in the frame is still at the spawn position when the frame ends, and
\* collisions are decided on the positions this frame's deltaTime produced:
\* while the game goes on no obstacle left in the collection touches the
\* updated player, and an obstacle that left it without crossing the despawn
\* threshold touched the updated player at its advanced position.
C14_FrameOrder ==
  [][ (lastOp' = "frame" /\ frame' = frame + 1) =>
        LET dt == clock' - clock
        IN /\ player' = update(player, dt)
           /\ \A i \in DOMAIN obstacles' :
                obstacles'[i].id \notin Ids(obstacles)
                  => obstacles'[i].z = SpawnZ
           /\ \A i \in DOMAIN collectibles' :
                collectibles'[i].id \notin Ids(collectibles)
                  => collectibles'[i].z = SpawnZ
           /\ gameState'.isPlaying =>
                /\ \A i \in DOMAIN obstacles' :
                     ~HitsObstacle(player', obstacles'[i])
                /\ \A i \in DOMAIN obstacles :
                     (/\ obstacles[i].id \notin Ids(obstacles')
                      /\ Entity_update(obstacles[i], dt).z <= DespawnZ)
                       => HitsObstacle(player',
                                       Entity_update(obstacles[i], dt))
    ]_vars

\* a frame in which the player was hit has also spawned an obstacle
C14_Witness ==
  /\ lastOp = "frame"
  /\ gameState.isPlaying
  /\ gameState.lives = 2
  /\ spawnTimer = 0
  /\ \E i \in DOMAIN obstacles : obstacles[i].z = SpawnZ
  /\ disposedNow # NoDisposal

\* C15 as claimed: an obstacle pass that starts with L lives and k obstacles
\* at distance < 1.0 takes min(k, L) lives and removes and disposes exactly
\* that many obstacles, all of them in range; the obstacles at distance
\* >= 1.0 stay in the collection.
C15_ObstaclePass ==
  [][ lastOp' = "checkCollisions" =>
        LET near == { i \in DOMAIN obstacles :
                        Within(player, LaneX(obstacles[i].lane), 75,
                               obstacles[i].z, 10000) }
            k == Cardinality(near)
            L == gameState.lives
            m == IF k < L THEN k ELSE L
            removed == Ids(obstacles) \ Ids(obstacles')
        IN /\ gameState'.lives = L - m
           /\ Cardinality(removed) = m
           /\ removed \subseteq { obstacles[i].id : i \in near }
           /\ \A id \in removed :
                id \in DOMAIN disposedNow' /\ disposedNow'[id] >= 1
    ]_vars

\* C15 amended: the pass takes min(k, L) lives.  In main.ts, and in the
\* enhanced game while a life is left after the pass, it removes and
\* disposes exactly min(k, L) obstacles, all in range, and the others stay;
\* the enhanced pass that takes the last life removes and disposes every
\* obstacle of the collection (stopGame clears it).
C15_ObstaclePassAmended ==
  [][ lastOp' = "checkCollisions" =>
        LET near == { i \in DOMAIN obstacles :
                        Within(player, LaneX(obstacles[i].lane), 75,
                               obstacles[i].z, 10000) }
            k == Cardinality(near)
            L == gameState.lives
            m == IF k < L THEN k ELSE L
            removed == Ids(obstacles) \ Ids(obstacles')
        IN /\ gameState'.lives = L - m
           /\ \A id \in removed :
                id \in DOMAIN disposedNow' /\ disposedNow'[id] >= 1
           /\ IF impl = "enhanced" /\ gameState'.lives = 0
                THEN obstacles' = <<>>
                ELSE /\ Cardinality(removed) = m
                     /\ removed \subseteq { obstacles[i].id : i \in near }
    ]_vars

\* one pass has taken two of three lives and left the game playing
C15_Witness ==
  /\ lastOp = "checkCollisions"
  /\ gameState.isPlaying
  /\ gameState.lives = 1
  /\ {1, 2} \subseteq DOMAIN disposedNow
  /\ Len(obstacles) = 1

\* C16: a collectible pass removes and disposes every collectible at
\* distance < 0.8 from the player and adds its value to the score (10 in
\* main.ts; coin 10, diya 25, phooljhadi 15, rangoli 30 in the enhanced
\* game); the collectibles at distance >= 0.8 stay and add nothing.  The
\* pass runs when the obstacle pass before it has not ended the game.
C16_CollectiblePass ==
  [][ (lastOp' = "checkCollisions" /\ gameState'.isPlaying) =>
        \E ey \in IF impl = "main" THEN {100} ELSE {80, 120} :
          LET value == [coin |-> 10, diya |-> 25, phooljhadi |-> 15,
                        rangoli |-> 30]
              near(c) == Within(player, LaneX(c.lane), ey, c.z, 6400)
              RECURSIVE Gain(_)
              Gain(n) == IF n = 0 THEN 0
                         ELSE Gain(n - 1)
                              + (IF near(collectibles[n])
                                   THEN value[collectibles[n].type] ELSE 0)
              RECURSIVE Kept(_)
              Kept(n) == IF n = 0 THEN <<>>
                         ELSE IF near(collectibles[n])
                                THEN Kept(n - 1)
                                ELSE Append(Kept(n - 1), collectibles[n])
          IN /\ gameState'.score = gameState.score + Gain(Len(collectibles))
             /\ collectibles' = Kept(Len(collectibles))
             /\ \A j \in DOMAIN collectibles :
                  near(collectibles[j]) =>
                    /\ collectibles[j].id \in DOMAIN disposedNow'
                    /\ disposedNow'[collectibles[j].id] >= 1
                    /\ collectibles[j].id \notin scene'
    ]_vars

\* a pass has picked up a diya and a rangoli and left a coin out of reach
C16_Witness ==
  /\ lastOp = "checkCollisions"
  /\ gameState.isPlaying
  /\ gameState.score = 55
  /\ Len(collectibles) = 0
  /\ DOMAIN disposedNow = {11, 12}

\* C17: stop() and dispose() leave no animation frame requested, and while
\* the loop is stopped onUpdate is not invoked and renderer.render is
\* invoked only by a frame that was already executing when the loop stopped.
C17_StopCancels ==
  [][ /\ lastOp' \in {"stop", "dispose"} =>
           (loop'.requests = {} /\ loop'.animationId = 0)
      /\ (~loop.isRunning /\ ~loop'.isRunning) =>
           /\ loop'.updates = loop.updates
           /\ loop'.renders # loop.renders => loop.frames # <<>>
    ]_vars

\* stop() was called from inside onUpdate and the frame has run to its end
C17_Witness ==
  /\ lastOp = "animateEnd"
  /\ ~loop.isRunning
  /\ loop.requests = {}
  /\ loop.renders = 2
  /\ loop.updates = 2

\* C18: every deltaTime passed to onUpdate lies in 0 .. config.maxDeltaTime.
C18_DeltaClamped ==
  loop.updates > 0 => (0 <= loop.deltaTime /\ loop.deltaTime <= maxDeltaTime)

\* the first frame after a stop()/start() cycle, and a frame after a long gap
C18_Witness ==
  /\ loop.starts = 2
  /\ loop.updates >= 3
  /\ loop.deltaTime = maxDeltaTime
  /\ loop.now - loop.lastTime > maxDeltaTime

\* C19: in a playing frame every obstacle and collectible that is active
\* when the update and cull step starts gets update(deltaTime) once and is
\* tested against the despawn threshold once: if its advanced position is
\* past the threshold it leaves the collection, and if it is still in the
\* collection at the end of the frame it is at its advanced position.
C19_EachUpdatedOnce ==
  [][ (lastOp' = "frame" /\ frame' = frame + 1) =>
        LET dt == clock' - clock
            Once(old, new) ==
              \A i \in DOMAIN old :
                LET e == Entity_update(old[i], dt)
                IN IF e.z > DespawnZ
                     THEN e.id \notin Ids(new)
                     ELSE \A j \in DOMAIN new :
                            new[j].id = e.id => new[j].z = e.z
        IN Once(obstacles, obstacles') /\ Once(collectibles, collectibles')
    ]_vars

\* C20 as claimed: at the end of every playing frame every active obstacle
\* and collectible has position.z < 10.
C20_BelowDespawn ==
  lastOp = "frame" =>
    /\ \A i \in DOMAIN obstacles : obstacles[i].z < 1000
    /\ \A j \in DOMAIN collectibles : collectibles[j].z < 1000

\* C20 amended: at the end of every playing frame every active obstacle and
\* collectible has position.z <= 10 (an entity is culled once z > 10).
C20_NotPastDespawn ==
  lastOp = "frame" =>
    /\ \A i \in DOMAIN obstacles : obstacles[i].z <= 1000
    /\ \A j \in DOMAIN collectibles : collectibles[j].z <= 1000

\* a frame has culled the first obstacle, which had stood at z = 10 exactly
\* for a frame, and kept later ones
C20_Witness ==
  /\ lastOp = "frame"
  /\ frame = 14
  /\ 1 \in DOMAIN disposedNow
  /\ 1 \notin scene
  /\ obstacles # <<>>

C22_GroundedOnGround ==
  /\ player.isGrounded => (player.velocityY = 0 /\ player.y = 60)
  /\ lastOp = "update" => player.y >= 60

\* C23: an update(deltaTime) of the player moves x toward targetX without
\* passing it: the distance |targetX - x| does not increase and x does not
\* change sides of targetX, so x stays within the lane range [-2, 2].
C23_NoOvershoot ==
  [][ lastOp' = "update" =>
        LET dx  == player.targetX - player.x
            dxN == player'.targetX - player'.x
        IN /\ Abs(dxN) <= Abs(dx)
           /\ dx * dxN >= 0
           /\ player'.x \in (-200) .. 200
    ]_vars

\* C24: a spawnObjects() call creates at most one entity per lane and
\* leaves at least one of the three lanes without an obstacle: main.ts
\* creates at most 1 obstacle per call, the enhanced game at most 2.
C24_LanePassable ==
  \A w \in 0 .. waves :
    LET obs  == { i \in DOMAIN obstacles : WaveOf(obstacles[i]) = w }
        cols == { j \in DOMAIN collectibles : WaveOf(collectibles[j]) = w }
    IN /\ \A i1 \in obs : \A i2 \in obs :
            obstacles[i1].lane = obstacles[i2].lane => i1 = i2
       /\ \A j1 \in cols : \A j2 \in cols :
            collectibles[j1].lane = collectibles[j2].lane => j1 = j2
       /\ \A i \in obs : \A j \in cols :
            obstacles[i].lane # collectibles[j].lane
       /\ Cardinality(obs) <= (IF impl = "main" THEN 1 ELSE 2)
       /\ \E l \in 0..2 : \A i \in obs : obstacles[i].lane # l

\* a call of main.ts has filled every lane: an obstacle in one, coins in two
C24_Witness ==
  /\ impl = "main"
  /\ lastOp = "spawnObjects"
  /\ Len(obstacles) = 1
  /\ Len(collectibles) = 2

\* C25: in main.ts, at every frame boundary from the first startGame() on,
\* the HealthBar's currentHealth equals gameState.lives and both lie in
\* 0..3, through starts, collisions, game-overs and restarts.
C25_HealthIsLives ==
  (impl = "main" /\ sessions >= 1) =>
    /\ health = gameState.lives
    /\ gameState.lives \in 0..3
    /\ health \in 0..3

\* the player of main.ts has been hit in a session started after a game over
C25_Witness ==
  /\ impl = "main"
  /\ sessions = 2
  /\ lastOp = "frame"
  /\ gameState.lives = 2
  /\ health = 2

\* C26: in the enhanced game startGame() restores the whole difficulty
\* ramp: after any start the spawn interval is its initial 2 s and speed
\* is 10.
C26_RampRestored ==
  (impl = "enhanced" /\ lastOp = "startGame") =>
    /\ spawnInterval = 200
    /\ gameState.speed = 100

\* C27: under every sequence of start(), stop(), dispose() and frame
\* callbacks, also with stop() or start() called from inside onUpdate, at
\* most one animation-frame request is pending at any time, and start()
\* on a running loop changes nothing.
C27_OneRequest ==
  [][ /\ Cardinality(loop'.requests) <= 1
      /\ (lastOp' = "start" /\ loop.isRunning) =>
           loop' = [loop EXCEPT !.now = loop'.now, !.ops = loop'.ops]
    ]_vars

\* start() has been called on a running loop between two frames
C27_Witness ==
  /\ lastOp = "start"
  /\ loop.frames = <<>>
  /\ loop.isRunning
  /\ Cardinality(loop.requests) = 1
  /\ loop.starts = 1

\* C28: once disconnect() or dispose() has returned, the handler does not
\* change the renderer size or the camera aspect and does not call
\* onResize (until observe() is called again), also when the delayed
\* callback of an orientationchange event is still pending; and at most one
\* ResizeObserver is connected at any time.
C28_QuietAfterDisconnect ==
  [][ /\ (~resizeHandler.isObserving /\ lastOp' # "observe") =>
           resizeHandler'.resizes = resizeHandler.resizes
      /\ Cardinality(resizeHandler'.observers) <= 1
    ]_vars

\* C29: cleanup() calls every function registered with add() exactly once,
\* in the order of registration, also when some of them throw, and leaves
\* the registry empty; a cleanup() that follows at once calls nothing.
C29_CleanupCallsAll ==
  [][ lastOp' = "cleanup" =>
        /\ hmrCleanup'.called =
             [i \in DOMAIN hmrCleanup.cleanupFunctions |->
                hmrCleanup.cleanupFunctions[i].id]
        /\ hmrCleanup'.cleanupFunctions = <<>>
        /\ lastOp = "cleanup" => hmrCleanup'.called = <<>>
    ]_vars

\* a cleanup() has called the three registered functions, two of which threw
C29_Witness ==
  /\ lastOp = "cleanup"
  /\ Len(hmrCleanup.called) = 3
  /\ hmrCleanup.errors = 2
  /\ hmrCleanup.cleanupFunctions = <<>>

\* C30: the constructor of EnhancedRunnerGame creates the player before any
\* step that uses it: it runs to its end without an exception and leaves
\* the player assigned and the player's mesh in the scene.
C30_PlayerBeforeUse ==
  lastOp = "constructor" =>
    /\ ~construction.threw
    /\ construction.constructed
    /\ construction.player # "undefined"
    /\ "player.mesh" \in construction.scene

====
